---- MODULE Spec2Model ----
(***************************************************************************)
(* Model of braindecode/scoring.py: the supercrop-to-trial reassembler     *)
(* (trial_preds_from_supercrop_preds), the scoped forward_iter cache       *)
(* (_cache_net_forward_iter) and the two epoch scoring callbacks           *)
(* (CroppedTrialEpochScoring, PostEpochTrainScoring).                      *)
(*                                                                         *)
(* A supercrop prediction (2d array, time in axis 1) is a sequence of      *)
(* columns; a column is an opaque value, since the code only ever selects  *)
(* and concatenates whole columns.                                         *)
(***************************************************************************)
EXTENDS Integers, Sequences, FiniteSets, TLC

\* ------------------------------------------------------------------ bounds
MaxWindows == 3     \* supercrops handed to the reassembler
MaxWinLen == 2      \* time-steps of one supercrop prediction
MaxIdx == 2         \* largest i_supercrop_in_trial drawn
MaxStop == 3        \* largest i_stop_in_trial drawn
MaxScopes == 2      \* scopes opened in one run of the cache scenario
MaxPreds == 2       \* predictions supplied to one scope
MaxPulls == 3       \* forward_iter pulls in one run of the cache scenario
MaxDepth == 2       \* scopes open at once in the nested cache scenario
NumCbs == 3         \* scoring callbacks attached to the net
MaxGatherLen == 2   \* supercrops in one dataset of the training scenario
GatherWinLen == 2   \* time-steps per supercrop in those datasets
MaxEpochs == 2      \* epochs of the training scenario

\* --------------------------------------------------------------- variables
VARIABLES
    r_preds,        \* reassembler input: preds
    r_inds,         \* reassembler input: i_supercrop_in_trials
    r_stops,        \* reassembler input: i_stop_in_trials
    r_result,       \* what the call returned or raised; NotRun before it
    net_forward_iter,   \* net.__dict__["forward_iter"]: 0 when the key is
                        \* absent (the bound method answers), else the id of
                        \* the scope whose cached_forward_iter is installed
    net_device,     \* net.device
    c_scopes,       \* stack of the open _cache_net_forward_iter scopes
    c_closed,       \* the scopes already left, in the order they were left
    c_log,          \* what each forward_iter pull returned, in order
    cbs,            \* net._default_callbacks + net.callbacks: the scoring
                    \* callbacks, each [kind, on_train, use_caching]
    crops_to_trials_computed,   \* per callback (CroppedTrialEpochScoring)
    y_preds_,       \* per callback: list of prediction batches
    y_trues_,       \* per callback: list of label batches, or trial labels
    supercrop_inds_,    \* per callback: list of per-batch index triples
    history,        \* net.history[-1]: the scores recorded this epoch
    epoch,          \* number of the running epoch
    phase,          \* "begin", "batches", "end" or "aborted"
    epoch_train,    \* this epoch's evaluation-mode results on dataset_train
    epoch_valid,    \* this epoch's results on dataset_valid
    ran,            \* callbacks whose on_epoch_end was called this epoch
    gather_count,   \* per on_train value: runs of the gather + reassembly
                    \* branch this epoch
    eval_passes,    \* inference passes made by PostEpochTrainScoring hooks
                    \* this epoch
    gathered,       \* per on_train value: the pred_results last gathered
    last_call       \* what the last on_epoch_end call did

r_vars == <<r_preds, r_inds, r_stops, r_result>>
c_vars == <<net_forward_iter, net_device, c_scopes, c_closed, c_log>>
e_vars == <<cbs, crops_to_trials_computed, y_preds_, y_trues_, supercrop_inds_,
            history, epoch, phase, epoch_train, epoch_valid, ran,
            gather_count, eval_passes, gathered, last_call>>
vars == <<r_vars, c_vars, e_vars>>

None == "None"
NotRun == [status |-> "not_run", trials |-> <<>>]

\* ---------------------------------------------------------- numpy helpers
RECURSIVE np_concatenate_axis1(_)
\* np.concatenate(arrays, axis=1) of a non-empty list of column sequences
np_concatenate_axis1(arrays) ==
    IF arrays = <<>> THEN <<>>
    ELSE Head(arrays) \o np_concatenate_axis1(Tail(arrays))

\* mutant of tail_slice: supercrop_preds[:, n:], the sign of n lost
tail_slice_no_minus(w, n) ==
    IF n >= Len(w) THEN <<>>
    ELSE IF n >= 0 THEN SubSeq(w, n + 1, Len(w))
    ELSE SubSeq(w, IF (0 - n) >= Len(w) THEN 1 ELSE Len(w) + n + 1, Len(w))

\* supercrop_preds[:, -n:] with numpy's slice rules: -0 is 0, so n = 0 keeps
\* every column; n > len keeps every column; n < 0 drops the first -n columns
tail_slice(w, n) ==
    IF n = 0 THEN w
    ELSE IF n > 0 THEN SubSeq(w, IF n >= Len(w) THEN 1 ELSE Len(w) - n + 1, Len(w))
    ELSE SubSeq(w, (0 - n) + 1, Len(w))

\* ----------------------------------------- trial_preds_from_supercrop_preds
\* mutant of loop_init: i_last_supercrop starts at 0
loop_init_last_zero ==
    [preds_per_trial |-> <<>>, cur_trial_preds |-> <<>>,
     has_last_stop |-> FALSE, i_last_stop |-> 0,
     i_last_supercrop |-> 0, error |-> None]

\* locals of the loop before its first iteration, lines 60-63; has_last_stop
\* is "i_last_stop is not None"
loop_init ==
    [preds_per_trial |-> <<>>, cur_trial_preds |-> <<>>,
     has_last_stop |-> FALSE, i_last_stop |-> 0,
     i_last_supercrop |-> -1, error |-> None]

\* mutant of new_trial_detected: a new trial only when the index drops
new_trial_on_drop(i_supercrop, i_last_supercrop) ==
    i_supercrop < i_last_supercrop + 1

\* the test of line 67
new_trial_detected(i_supercrop, i_last_supercrop) ==
    i_supercrop # (i_last_supercrop + 1)

\* mutant of last_stop_known: i_last_stop is not reset at a trial boundary
last_stop_kept_over_boundary(st, boundary) == st.has_last_stop

\* "i_last_stop is not None" at line 75, after the reset of line 72
last_stop_known(st, boundary) == st.has_last_stop /\ ~boundary

\* one iteration of the loop over zip(preds, inds, stops)
loop_body(st, supercrop_preds, i_supercrop, i_stop) ==
    IF st.error # None THEN st
    ELSE IF new_trial_detected(i_supercrop, st.i_last_supercrop)
            /\ i_supercrop # 0
    THEN [st EXCEPT !.error = "AssertionError"]
    ELSE IF new_trial_detected(i_supercrop, st.i_last_supercrop)
            /\ st.cur_trial_preds = <<>>
    \* np.concatenate of an empty list, line 70
    THEN [st EXCEPT !.error = "ValueError"]
    ELSE
      LET boundary == new_trial_detected(i_supercrop, st.i_last_supercrop)
          flushed == IF boundary
                     THEN Append(st.preds_per_trial,
                                 np_concatenate_axis1(st.cur_trial_preds))
                     ELSE st.preds_per_trial
          cur == IF boundary THEN <<>> ELSE st.cur_trial_preds
          has_stop == last_stop_known(st, boundary)
          kept == IF has_stop
                  THEN tail_slice(supercrop_preds, i_stop - st.i_last_stop)
                  ELSE supercrop_preds
      IN [preds_per_trial |-> flushed,
          cur_trial_preds |-> Append(cur, kept),
          has_last_stop |-> TRUE,
          i_last_stop |-> i_stop,
          i_last_supercrop |-> i_supercrop,
          error |-> None]

\* the loop's locals after k iterations
loop_state(preds, inds, stops, k) ==
    LET st[i \in 0..k] ==
          IF i = 0 THEN loop_init
          ELSE loop_body(st[i - 1], preds[i], inds[i], stops[i])
    IN st[k]

\* the whole function: [status, trials]
trial_preds_from_supercrop_preds(preds, i_supercrop_in_trials, i_stop_in_trials) ==
    IF Len(preds) # Len(i_supercrop_in_trials)
       \/ Len(i_supercrop_in_trials) # Len(i_stop_in_trials)
    THEN [status |-> "AssertionError", trials |-> <<>>]
    ELSE
      LET fin == loop_state(preds, i_supercrop_in_trials, i_stop_in_trials,
                            Len(preds))
      IN IF fin.error # None
         THEN [status |-> fin.error, trials |-> <<>>]
         ELSE IF fin.cur_trial_preds = <<>>
         \* np.concatenate of an empty list
         THEN [status |-> "ValueError", trials |-> <<>>]
         ELSE [status |-> "ok",
               trials |-> Append(fin.preds_per_trial,
                                 np_concatenate_axis1(fin.cur_trial_preds))]

\* ------------------------------------------------- _cache_net_forward_iter
NoOverride == 0
Devices == {"cpu", "cuda"}

\* yp.to(device=device): the same data, placed on the device
to_device(yp, device) == [yp EXCEPT !.device = device]

\* mutant of cache_enter: the override is installed whatever use_caching is
cache_enter_always(fi, use_caching, id) == id

\* scope entry, lines 93-103: the value of net.__dict__["forward_iter"] after
\* it; nothing is installed when use_caching is false
cache_enter(fi, use_caching, id) ==
    IF use_caching THEN id ELSE fi

\* mutant of cache_exit: cleanup written after the yield without try/finally
cache_exit_no_finally(fi, use_caching, raised) ==
    IF ~use_caching \/ raised
    THEN [fi |-> fi, removed |-> 0, error |-> None]
    ELSE IF fi = NoOverride
    THEN [fi |-> fi, removed |-> 0, error |-> "KeyError"]
    ELSE [fi |-> NoOverride, removed |-> 1, error |-> None]

\* scope exit, lines 94-95 and 104-111: del net.__dict__["forward_iter"] runs
\* in the finally clause, so after a normal body and after a raising body;
\* deleting an absent key raises KeyError
cache_exit(fi, use_caching, raised) ==
    IF ~use_caching
    THEN [fi |-> fi, removed |-> 0, error |-> None]
    ELSE IF fi = NoOverride
    THEN [fi |-> fi, removed |-> 0, error |-> "KeyError"]
    ELSE [fi |-> NoOverride, removed |-> 1, error |-> None]

\* mutant of cached_forward_iter_next: iterates the list, not one shared
\* iterator, so the cursor never advances
cached_next_no_advance(y_preds, cursor, device) ==
    IF cursor < Len(y_preds)
    THEN [kind |-> "cached", yp |-> to_device(y_preds[cursor + 1], device),
          cursor |-> cursor]
    ELSE [kind |-> "end", yp |-> [data |-> 0, device |-> device],
          cursor |-> cursor]

\* mutant of cached_forward_iter_next: without the iter() of line 96 every
\* forward_iter call loops over the list itself and starts from its head
cached_next_restarts(y_preds, cursor, device) ==
    IF cursor < Len(y_preds)
    THEN [kind |-> "cached", yp |-> to_device(y_preds[cursor + 1], device),
          cursor |-> cursor + 1]
    ELSE [kind |-> "end", yp |-> [data |-> 0, device |-> device],
          cursor |-> 0]

\* one pull from cached_forward_iter, lines 96-101: the next item of the
\* iterator made at scope entry, moved to the device, or the end
cached_forward_iter_next(y_preds, cursor, device) ==
    IF cursor < Len(y_preds)
    THEN [kind |-> "cached", yp |-> to_device(y_preds[cursor + 1], device),
          cursor |-> cursor + 1]
    ELSE [kind |-> "end", yp |-> [data |-> 0, device |-> device],
          cursor |-> cursor]

\* what the net's own forward_iter yields: the output of real inference
RealOutput == [data |-> 0, device |-> "cpu"]

\* ------------------------------------------ specification: the cache scope
\* the predictions handed to scope id: n batches on the cpu, all distinct and
\* distinct from those of every other scope; a scope with use_caching false
\* never looks at them and is handed the longest list
SuppliedPreds(id, use_caching) ==
    {[b \in 1..n |-> [data |-> 10 * id + b, device |-> "cpu"]] :
        n \in IF use_caching THEN 0..MaxPreds ELSE {MaxPreds}}

NextScopeId == Len(c_scopes) + Len(c_closed) + 1

CacheIdle ==
    /\ net_forward_iter = NoOverride
    /\ net_device = "cpu"
    /\ c_scopes = <<>>
    /\ c_closed = <<>>
    /\ c_log = <<>>

ReassembleIdle ==
    /\ r_preds = <<>>
    /\ r_inds = <<>>
    /\ r_stops = <<>>
    /\ r_result = NotRun

NoData == [inds |-> <<>>, stops |-> <<>>, preds |-> <<>>, ys |-> <<>>]
NoCall == [cb |-> 0, error |-> None, computed |-> FALSE, inside_fi |-> 0,
           removed |-> 0]

EpochIdle ==
    /\ cbs = <<>>
    /\ crops_to_trials_computed = <<>>
    /\ y_preds_ = <<>>
    /\ y_trues_ = <<>>
    /\ supercrop_inds_ = <<>>
    /\ history = <<>>
    /\ epoch = 0
    /\ phase = "idle"
    /\ epoch_train = NoData
    /\ epoch_valid = NoData
    /\ ran = {}
    /\ gather_count = [t \in BOOLEAN |-> 0]
    /\ eval_passes = 0
    /\ gathered = [t \in BOOLEAN |-> NoData]
    /\ last_call = NoCall

CacheInit ==
    /\ net_forward_iter = NoOverride
    /\ net_device \in Devices
    /\ c_scopes = <<>>
    /\ c_closed = <<>>
    /\ c_log = <<>>
    /\ ReassembleIdle
    /\ EpochIdle

\* `with _cache_net_forward_iter(net, use_caching, y_preds) as cached_net:`
\* up to the yield; depth is the number of scopes that may be open at once
EnterScope(depth, use_caching, y_preds) ==
    /\ Len(c_scopes) < depth
    /\ Len(c_scopes) + Len(c_closed) < MaxScopes
    /\ LET id == NextScopeId
       IN /\ c_scopes' = Append(c_scopes,
                [id |-> id, use_caching |-> use_caching, y_preds |-> y_preds,
                 cursor |-> 0, device |-> net_device,
                 entry_fi |-> net_forward_iter,
                 inside_fi |-> cache_enter(net_forward_iter, use_caching, id)])
          /\ net_forward_iter' = cache_enter(net_forward_iter, use_caching, id)
    /\ UNCHANGED <<net_device, c_closed, c_log, r_vars, e_vars>>

\* the open scope whose cached_forward_iter is installed on the net
OwnerIndex ==
    CHOOSE i \in 1..Len(c_scopes) : c_scopes[i].id = net_forward_iter

InnermostId == IF c_scopes = <<>> THEN 0 ELSE c_scopes[Len(c_scopes)].id

\* one pull from net.forward_iter(...): the cached replay while an override
\* is installed, real inference otherwise
ForwardIterPull ==
    /\ Len(c_log) < MaxPulls
    /\ IF net_forward_iter = NoOverride
       THEN /\ c_log' = Append(c_log,
                   [scope |-> InnermostId, after |-> Len(c_closed),
                    kind |-> "real", yp |-> RealOutput])
            /\ UNCHANGED c_scopes
       ELSE LET i == OwnerIndex
                out == cached_forward_iter_next(
                           c_scopes[i].y_preds, c_scopes[i].cursor,
                           c_scopes[i].device)
            IN /\ c_log' = Append(c_log,
                      [scope |-> InnermostId, after |-> Len(c_closed),
                       kind |-> out.kind, yp |-> out.yp])
               /\ c_scopes' = [c_scopes EXCEPT ![i].cursor = out.cursor]
    /\ UNCHANGED <<net_forward_iter, net_device, c_closed, r_vars, e_vars>>

\* the body of the innermost scope ends, normally or by raising
ExitScope(raised) ==
    /\ c_scopes # <<>>
    /\ LET sc == c_scopes[Len(c_scopes)]
           out == cache_exit(net_forward_iter, sc.use_caching, raised)
       IN /\ net_forward_iter' = out.fi
          /\ c_closed' = Append(c_closed,
                [id |-> sc.id, use_caching |-> sc.use_caching,
                 y_preds |-> sc.y_preds, cursor |-> sc.cursor,
                 entry_fi |-> sc.entry_fi, inside_fi |-> sc.inside_fi,
                 pre_exit_fi |-> net_forward_iter,
                 exit_fi |-> out.fi, removed |-> out.removed,
                 raised |-> raised, error |-> out.error])
          /\ c_scopes' = SubSeq(c_scopes, 1, Len(c_scopes) - 1)
    /\ UNCHANGED <<net_device, c_log, r_vars, e_vars>>

\* scopes one after the other, as the two on_epoch_end hooks open them
CacheNext ==
    \/ \E use_caching \in BOOLEAN :
          \E y_preds \in SuppliedPreds(NextScopeId, use_caching) :
              EnterScope(1, use_caching, y_preds)
    \/ ForwardIterPull
    \/ \E raised \in BOOLEAN : ExitScope(raised)

SpecCache == CacheInit /\ [][CacheNext]_vars

\* scopes that may also be opened inside the body of an open scope
CacheNestedNext ==
    \/ \E use_caching \in BOOLEAN :
          \E y_preds \in SuppliedPreds(NextScopeId, use_caching) :
              EnterScope(MaxDepth, use_caching, y_preds)
    \/ ForwardIterPull
    \/ \E raised \in BOOLEAN : ExitScope(raised)

SpecCacheNested == CacheInit /\ [][CacheNestedNext]_vars

\* ------------------------------------------- specification: the reassembler
\* column j of supercrop k, labelled so that every column is distinct
Column(k, j) == 10 * k + j
Supercrop(k, len) == [j \in 1..len |-> Column(k, j)]

\* the three sequences have equal length or lengths that differ by one
ReassembleInit ==
    /\ \E n \in 0..MaxWindows, len \in 1..MaxWinLen :
          /\ r_preds = [k \in 1..n |-> Supercrop(k, len)]
          /\ \E m \in {n - 1, n, n + 1} \cap (0..MaxWindows) :
                r_inds \in [1..m -> 0..MaxIdx]
          /\ \E m \in {n - 1, n, n + 1} \cap (0..MaxWindows) :
                r_stops \in [1..m -> 0..MaxStop]
    /\ r_result = NotRun
    /\ CacheIdle
    /\ EpochIdle

CallReassemble ==
    /\ r_result = NotRun
    /\ r_result' = trial_preds_from_supercrop_preds(r_preds, r_inds, r_stops)
    /\ UNCHANGED <<r_preds, r_inds, r_stops, c_vars, e_vars>>

ReassembleNext == CallReassemble

SpecReassemble == ReassembleInit /\ [][ReassembleNext]_vars

\* --------------------------------------------------- the scoring callbacks
DatasetTrain == "dataset_train"
DatasetValid == "dataset_valid"

CroppedCb(on_train, use_caching) ==
    [kind |-> "cropped", on_train |-> on_train, use_caching |-> use_caching]
\* PostEpochTrainScoring.__init__ fixes on_train=True, use_caching=False
PostCb == [kind |-> "post", on_train |-> TRUE, use_caching |-> FALSE]

CbConfigs ==
    <<CroppedCb(TRUE, TRUE), CroppedCb(FALSE, TRUE), PostCb,
      CroppedCb(TRUE, FALSE), CroppedCb(FALSE, FALSE)>>

Cbs == 1..Len(cbs)
IsCropped(j) == cbs[j].kind = "cropped"
IsPost(j) == cbs[j].kind = "post"

RECURSIVE np_concatenate(_)
\* np.concatenate(arrays) along axis 0 of a non-empty list
np_concatenate(arrays) ==
    IF arrays = <<>> THEN <<>>
    ELSE Head(arrays) \o np_concatenate(Tail(arrays))

RECURSIVE SumSeq(_)
SumSeq(q) == IF q = <<>> THEN 0 ELSE Head(q) + SumSeq(Tail(q))

RECURSIVE GCD(_, _)
GCD(a, b) == IF b = 0 THEN a ELSE GCD(b, a % b)

\* np.mean(p, axis=1) of a non-empty trial, as the reduced fraction
\* <<numerator, denominator>>
np_mean_axis1(p) ==
    LET g == GCD(SumSeq(p), Len(p))
    IN <<SumSeq(p) \div g, Len(p) \div g>>

\* lines 175-176: np.diff(inds, prepend=[1]) != -1
supercrop_0_per_trial_mask(inds) ==
    [k \in 1..Len(inds) |->
        (inds[k] - (IF k = 1 THEN 1 ELSE inds[k - 1])) # -1]

\* ys[mask] for a boolean mask as long as ys
boolean_index(ys, mask) ==
    LET Picked(k) == mask[k]
        picked == SelectSeq([k \in 1..Len(ys) |-> k], Picked)
    IN [t \in 1..Len(picked) |-> ys[picked[t]]]

\* lines 171-188: from the gathered pred_results to the trial labels and the
\* one-batch list of per-trial mean predictions
crops_to_trials(res) ==
    LET trial_ys == boolean_index(res.ys, supercrop_0_per_trial_mask(res.inds))
        tp == trial_preds_from_supercrop_preds(res.preds, res.inds, res.stops)
    IN IF tp.status # "ok"
       THEN [error |-> tp.status, y_preds |-> <<>>, y_trues |-> <<>>]
       ELSE [error |-> None,
             y_preds |-> <<[data |-> [t \in 1..Len(tp.trials) |->
                                        np_mean_axis1(tp.trials[t])],
                            device |-> "cpu"]>>,
             y_trues |-> trial_ys]

\* lines 158-168: pred_results from the callback's own buffers;
\* np.concatenate of an empty list raises
gather_valid(i) ==
    IF supercrop_inds_[i] = <<>> \/ y_preds_[i] = <<>> \/ y_trues_[i] = <<>>
    THEN [error |-> "ValueError", res |-> NoData]
    ELSE [error |-> None,
          res |-> [inds |-> np_concatenate(
                       [b \in 1..Len(supercrop_inds_[i]) |->
                           supercrop_inds_[i][b][1]]),
                   stops |-> np_concatenate(
                       [b \in 1..Len(supercrop_inds_[i]) |->
                           supercrop_inds_[i][b][3]]),
                   preds |-> np_concatenate(
                       [b \in 1..Len(y_preds_[i]) |-> y_preds_[i][b].data]),
                   ys |-> np_concatenate(y_trues_[i])]]

\* net.predict_with_supercrop_inds_and_ys(dataset_train), line 154
predict_with_supercrop_inds_and_ys ==
    [error |-> None, res |-> epoch_train]

RECURSIVE replay_from(_, _, _)
\* a complete iteration of cached_forward_iter, from the cursor to the end
replay_from(y_preds, cursor, device) ==
    LET out == cached_forward_iter_next(y_preds, cursor, device)
    IN IF out.kind = "end" THEN <<>>
       ELSE <<out.yp>> \o replay_from(y_preds, out.cursor, device)

\* lines 205-208 and 283-288: the scoring function runs inside the scope; it
\* iterates forward_iter of the net it is given and returns a score, here
\* the record of everything it was given, or raises
score_through_cache(use_caching, y_preds, dataset, y_trues, scoring_raises) ==
    LET inside == cache_enter(net_forward_iter, use_caching, 1)
        seen == IF inside = NoOverride THEN <<RealOutput>>
                ELSE replay_from(y_preds, 0, net_device)
        out == cache_exit(inside, use_caching, scoring_raises)
    IN [inside_fi |-> inside, fi |-> out.fi, removed |-> out.removed,
        error |-> IF scoring_raises THEN "ScoringError" ELSE out.error,
        score |-> [preds |-> seen, dataset |-> dataset, y |-> y_trues]]

\* mutant of record_after_scope: the score is recorded inside the scope,
\* before the error of the scoring function is known
record_always(hist, i, sc) == Append(hist, [cb |-> i, score |-> sc.score])

\* mutant of record_after_scope: the score takes the place of the epoch's row
record_overwrites(hist, i, sc) ==
    IF sc.error # None THEN hist
    ELSE <<[cb |-> i, score |-> sc.score]>>

\* lines 209 and 289: self._record_score(net.history, current_score), reached
\* only when the with block ended without an exception
record_after_scope(hist, i, sc) ==
    IF sc.error # None THEN hist
    ELSE Append(hist, [cb |-> i, score |-> sc.score])

\* mutant of cropped_group: the results are stored on self only
cropped_group_self_only(i) == {i}

\* mutant of cropped_group: every CroppedTrialEpochScoring, whatever its set
cropped_group_any_set(i) == {j \in Cbs : IsCropped(j)}

\* lines 192-197: the instances the results are stored on
cropped_group(i) ==
    {j \in Cbs : IsCropped(j) /\ cbs[j].on_train = cbs[i].on_train}

\* mutant of Unchanged: the caller is marked computed before the failure
marked_before_failure(i, err) ==
    [error |-> err, computed |-> FALSE,
     flags |-> [crops_to_trials_computed EXCEPT ![i] = TRUE],
     y_preds |-> y_preds_,
     y_trues |-> y_trues_, fi |-> net_forward_iter, hist |-> history,
     inside_fi |-> NoOverride, removed |-> 0, res |-> NoData]

\* what a call leaves behind when it raises before changing anything
Unchanged(i, err) ==
    [error |-> err, computed |-> FALSE,
     flags |-> crops_to_trials_computed, y_preds |-> y_preds_,
     y_trues |-> y_trues_, fi |-> net_forward_iter, hist |-> history,
     inside_fi |-> NoOverride, removed |-> 0, res |-> NoData]

\* mutant of assert_use_caching: the assertion is compiled away
assert_use_caching_skipped(i) == TRUE

\* line 151: assert self.use_caching == True
assert_use_caching(i) == cbs[i].use_caching

\* mutant of cropped_dataset: the validation set whatever on_train is
cropped_dataset_valid(i) == DatasetValid

\* line 203: dataset = dataset_train if self.on_train else dataset_valid
cropped_dataset(i) == IF cbs[i].on_train THEN DatasetTrain ELSE DatasetValid

\* mutant of cropped_needs_compute: every call gathers and reassembles
cropped_needs_compute_always(i) == TRUE

\* line 152: if not self.crops_to_trials_computed
cropped_needs_compute(i) == ~crops_to_trials_computed[i]

\* CroppedTrialEpochScoring.on_epoch_end, lines 150-211
cropped_on_epoch_end(i, scoring_raises) ==
    IF ~assert_use_caching(i) THEN Unchanged(i, "AssertionError")
    ELSE
      LET fresh == cropped_needs_compute(i)
          g == IF cbs[i].on_train THEN predict_with_supercrop_inds_and_ys
               ELSE gather_valid(i)
          ct == crops_to_trials(g.res)
      IN IF fresh /\ g.error # None THEN Unchanged(i, g.error)
         ELSE IF fresh /\ ct.error # None
         THEN [Unchanged(i, ct.error) EXCEPT !.res = g.res]
         ELSE
           LET grp == IF fresh THEN cropped_group(i) ELSE {}
               yp == [j \in Cbs |-> IF j \in grp THEN ct.y_preds
                                     ELSE y_preds_[j]]
               yt == [j \in Cbs |-> IF j \in grp THEN ct.y_trues
                                     ELSE y_trues_[j]]
               fl == [j \in Cbs |-> IF j \in grp THEN TRUE
                                     ELSE crops_to_trials_computed[j]]
               dataset == cropped_dataset(i)
               sc == score_through_cache(cbs[i].use_caching, yp[i], dataset,
                                         yt[i], scoring_raises)
           IN [error |-> sc.error, computed |-> fresh, flags |-> fl,
               y_preds |-> yp, y_trues |-> yt, fi |-> sc.fi,
               hist |-> record_after_scope(history, i, sc),
               inside_fi |-> sc.inside_fi, removed |-> sc.removed,
               res |-> IF fresh THEN g.res ELSE NoData]

\* lines 257-267: one batch per supercrop of the training data, predicted by
\* net.evaluation_step(batch_X, training=False) and moved to the cpu
evaluation_pass ==
    IF epoch_train.preds = <<>>
    THEN [error |-> "ValueError", y_preds |-> <<>>, y_test |-> <<>>]
    ELSE [error |-> None,
          y_preds |-> [b \in 1..Len(epoch_train.preds) |->
                          to_device([data |-> <<epoch_train.preds[b]>>,
                                     device |-> net_device], "cpu")],
          y_test |-> np_concatenate(
                          [b \in 1..Len(epoch_train.ys) |->
                              <<epoch_train.ys[b]>>])]

\* mutant of post_needs_pass: every instance recomputes
post_needs_pass_always(i) == TRUE

\* line 256
post_needs_pass(i) == Len(y_preds_[i]) = 0

\* PostEpochTrainScoring.on_epoch_end, lines 255-289
post_on_epoch_end(i, scoring_raises) ==
    LET fresh == post_needs_pass(i)
        ev == evaluation_pass
    IN IF fresh /\ ev.error # None THEN Unchanged(i, ev.error)
       ELSE
         LET grp == IF fresh THEN {j \in Cbs : IsPost(j)} ELSE {}
             yp == [j \in Cbs |-> IF j \in grp THEN ev.y_preds
                                   ELSE y_preds_[j]]
             yt == [j \in Cbs |-> IF j \in grp THEN ev.y_test
                                   ELSE y_trues_[j]]
             sc == score_through_cache(TRUE, yp[i], DatasetTrain, yt[i],
                                       scoring_raises)
         IN [error |-> sc.error, computed |-> fresh,
             flags |-> crops_to_trials_computed,
             y_preds |-> yp, y_trues |-> yt, fi |-> sc.fi,
             hist |-> record_after_scope(history, i, sc),
             inside_fi |-> sc.inside_fi, removed |-> sc.removed,
             res |-> NoData]

\* ------------------------------------- specification: epochs of a training
\* the results of one dataset in one epoch: supercrops of GatherWinLen
\* time-steps cut with stride 1, each the first or the second of its trial unless the index
\* sequence is malformed; every column and every label is distinct
GatherIdx == {0, 1}

EpochData(ep, split) ==
    LET base == 1000 * split + 100 * ep
    IN {[inds |-> inds,
         stops |-> [k \in 1..Len(inds) |-> GatherWinLen + inds[k]],
         preds |-> [k \in 1..Len(inds) |->
                      [j \in 1..GatherWinLen |-> base + 10 * k + j]],
         ys |-> [k \in 1..Len(inds) |-> base + k]] :
          inds \in UNION {[1..n -> GatherIdx] : n \in 0..MaxGatherLen}}

\* the callbacks of the net, up to their order in the list
CbLists ==
    {l \in [1..NumCbs -> 1..Len(CbConfigs)] :
        \A a, b \in 1..NumCbs : a < b => l[a] <= l[b]}

EpochInit ==
    /\ \E l \in CbLists : cbs = [j \in 1..NumCbs |-> CbConfigs[l[j]]]
    /\ crops_to_trials_computed = [j \in 1..NumCbs |-> FALSE]
    /\ y_preds_ = [j \in 1..NumCbs |-> <<>>]
    /\ y_trues_ = [j \in 1..NumCbs |-> <<>>]
    /\ supercrop_inds_ = [j \in 1..NumCbs |-> <<>>]
    /\ history = <<>>
    /\ epoch = 0
    /\ phase = "begin"
    /\ epoch_train = NoData
    /\ epoch_valid = NoData
    /\ ran = {}
    /\ gather_count = [t \in BOOLEAN |-> 0]
    /\ eval_passes = 0
    /\ gathered = [t \in BOOLEAN |-> NoData]
    /\ last_call = NoCall
    /\ net_forward_iter = NoOverride
    /\ net_device \in Devices
    /\ c_scopes = <<>>
    /\ c_closed = <<>>
    /\ c_log = <<>>
    /\ ReassembleIdle

\* mutant of initialize_cache: only the inherited part runs, the flag stays
initialize_cache_inherited_only(j) ==
    [crops_to_trials_computed |-> crops_to_trials_computed[j],
     y_trues_ |-> <<>>, y_preds_ |-> <<>>]

\* _initialize_cache of callback j, lines 142-146 (the inherited one empties
\* the two lists as well): the fields it leaves
initialize_cache(j) ==
    [crops_to_trials_computed |-> FALSE, y_trues_ |-> <<>>, y_preds_ |-> <<>>]

\* on_epoch_begin of every callback: _initialize_cache, lines 142-148 for
\* CroppedTrialEpochScoring and the inherited one (both lists emptied) for
\* PostEpochTrainScoring; the net opens a new history row
OnEpochBegin ==
    /\ phase \in {"begin", "end"}
    /\ phase = "end" => ran = Cbs
    /\ epoch < MaxEpochs
    /\ epoch' = epoch + 1
    /\ crops_to_trials_computed' =
          [j \in Cbs |-> initialize_cache(j).crops_to_trials_computed]
    /\ y_preds_' = [j \in Cbs |-> initialize_cache(j).y_preds_]
    /\ y_trues_' = [j \in Cbs |-> initialize_cache(j).y_trues_]
    /\ supercrop_inds_' = [j \in Cbs |-> <<>>]
    /\ history' = <<>>
    /\ ran' = {}
    /\ gather_count' = [t \in BOOLEAN |-> 0]
    /\ eval_passes' = 0
    /\ gathered' = [t \in BOOLEAN |-> NoData]
    /\ last_call' = NoCall
    /\ phase' = "batches"
    /\ UNCHANGED <<cbs, epoch_train, epoch_valid, r_vars, c_vars>>

\* the batches of the epoch, one supercrop per batch, with the results the
\* net gives on the two datasets in this epoch: a caching callback
\* collects the predictions and labels of the batches of its split, and a
\* validation CroppedTrialEpochScoring is handed the index triples
RunBatches ==
    /\ phase = "batches"
    /\ \E tr \in EpochData(epoch, 0), va \in EpochData(epoch, 1) :
          /\ epoch_train' = tr
          /\ epoch_valid' = va
          /\ y_preds_' = [j \in Cbs |->
                IF ~cbs[j].use_caching THEN y_preds_[j]
                ELSE IF cbs[j].on_train
                THEN [b \in 1..Len(tr.preds) |->
                        [data |-> <<[c \in 1..Len(tr.preds[b]) |->
                                       tr.preds[b][c] + 5000]>>,
                         device |-> net_device]]
                ELSE [b \in 1..Len(va.preds) |->
                        [data |-> <<va.preds[b]>>, device |-> net_device]]]
          /\ y_trues_' = [j \in Cbs |->
                IF ~cbs[j].use_caching THEN y_trues_[j]
                ELSE IF cbs[j].on_train
                THEN [b \in 1..Len(tr.ys) |-> <<tr.ys[b]>>]
                ELSE [b \in 1..Len(va.ys) |-> <<va.ys[b]>>]]
          /\ supercrop_inds_' = [j \in Cbs |->
                IF IsCropped(j) /\ ~cbs[j].on_train
                THEN [b \in 1..Len(va.inds) |->
                        <<<<va.inds[b]>>,
                          <<va.stops[b] - GatherWinLen>>,
                          <<va.stops[b]>>>>]
                ELSE supercrop_inds_[j]]
    /\ phase' = "end"
    /\ UNCHANGED <<cbs, crops_to_trials_computed, history, epoch, ran,
                   gather_count, eval_passes, gathered, last_call,
                   r_vars, c_vars>>

\* the state after a call of on_epoch_end that returned or raised r
AfterCall(i, r) ==
    /\ crops_to_trials_computed' = r.flags
    /\ y_preds_' = r.y_preds
    /\ y_trues_' = r.y_trues
    /\ net_forward_iter' = r.fi
    /\ history' = r.hist
    /\ ran' = ran \cup {i}
    /\ phase' = IF r.error # None THEN "aborted" ELSE "end"
    /\ last_call' = [cb |-> i, error |-> r.error, computed |-> r.computed,
                     inside_fi |-> r.inside_fi, removed |-> r.removed]
    /\ UNCHANGED <<cbs, supercrop_inds_, epoch, epoch_train, epoch_valid,
                   net_device, c_scopes, c_closed, c_log, r_vars>>

CroppedOnEpochEnd(i, scoring_raises) ==
    /\ phase = "end"
    /\ i \in Cbs \ ran
    /\ IsCropped(i)
    /\ LET r == cropped_on_epoch_end(i, scoring_raises)
       IN /\ AfterCall(i, r)
          /\ gather_count' =
                IF r.computed
                THEN [gather_count EXCEPT ![cbs[i].on_train] = @ + 1]
                ELSE gather_count
          /\ gathered' =
                IF r.res # NoData
                THEN [gathered EXCEPT ![cbs[i].on_train] = r.res]
                ELSE gathered
          /\ UNCHANGED eval_passes

PostOnEpochEnd(i, scoring_raises) ==
    /\ phase = "end"
    /\ i \in Cbs \ ran
    /\ IsPost(i)
    /\ LET r == post_on_epoch_end(i, scoring_raises)
       IN /\ AfterCall(i, r)
          /\ eval_passes' = IF r.computed THEN eval_passes + 1
                            ELSE eval_passes
          /\ UNCHANGED <<gather_count, gathered>>

Next ==
    \/ OnEpochBegin
    \/ RunBatches
    \/ \E i \in Cbs, scoring_raises \in BOOLEAN :
          CroppedOnEpochEnd(i, scoring_raises)
    \/ \E i \in Cbs, scoring_raises \in BOOLEAN :
          PostOnEpochEnd(i, scoring_raises)

Spec == EpochInit /\ [][Next]_vars

\* ------------------------------------------------ reassembler: properties
Ran == r_result.status # "not_run"
EqualLen == Len(r_preds) = Len(r_inds) /\ Len(r_inds) = Len(r_stops)

\* the index before supercrop i (-1 before the first, as i_last_supercrop)
PrevIdx(inds, i) == IF i = 1 THEN -1 ELSE inds[i - 1]

\* every index is 0 or one more than the index before it; the first is 0
WellFormed(inds) ==
    /\ Len(inds) >= 1
    /\ \A i \in 1..Len(inds) : inds[i] = 0 \/ inds[i] = PrevIdx(inds, i) + 1
    /\ inds[1] = 0

Malformed(inds) ==
    \E i \in 1..Len(inds) : inds[i] # 0 /\ inds[i] # PrevIdx(inds, i) + 1

\* positions of the 0 entries, in increasing order
ZeroPositions(inds) ==
    LET IsZeroAt(i) == inds[i] = 0
    IN SelectSeq([i \in 1..Len(inds) |-> i], IsZeroAt)

\* the columns of supercrop k that reached the output, in output order
Contribution(k) ==
    LET FromK(c) == c \div 10 = k
    IN SelectSeq(np_concatenate_axis1(r_result.trials), FromK)

LastColumns(w, n) == SubSeq(w, Len(w) - n + 1, Len(w))

\* C4: a supercrop that is not the first of its trial contributes exactly its
\* last needed = i_stop - i_last_stop columns, for every needed in
\* 0..window length; needed = 0 contributes nothing.
C4_NeededColumns ==
    (Ran /\ r_result.status = "ok") =>
        \A k \in 2..Len(r_preds) :
            LET needed == r_stops[k] - r_stops[k - 1]
            IN (r_inds[k] = r_inds[k - 1] + 1
                /\ needed \in 0..Len(r_preds[k]))
               => Contribution(k) = LastColumns(r_preds[k], needed)

\* the part of C4 the code satisfies: 1 <= needed <= window length
C4_NeededColumnsPositive ==
    (Ran /\ r_result.status = "ok") =>
        \A k \in 2..Len(r_preds) :
            LET needed == r_stops[k] - r_stops[k - 1]
            IN (r_inds[k] = r_inds[k - 1] + 1
                /\ needed \in 1..Len(r_preds[k]))
               => Contribution(k) = LastColumns(r_preds[k], needed)

\* C8: on well-formed input the number of output trials equals the number of
\* 0 entries of the index sequence, and trial t starts with the supercrop at
\* the t-th 0 entry (trials are output in order of occurrence).
C8_TrialCount ==
    (Ran /\ EqualLen /\ WellFormed(r_inds)) =>
        /\ r_result.status = "ok"
        /\ Len(r_result.trials) = Len(ZeroPositions(r_inds))
        /\ \A t \in 1..Len(r_result.trials) :
              /\ r_result.trials[t] # <<>>
              /\ Head(r_result.trials[t]) = Column(ZeroPositions(r_inds)[t], 1)

C8_Witness ==
    /\ Ran
    /\ r_inds = <<0, 1, 0>>
    /\ EqualLen
    /\ Len(r_result.trials) = 2

\* C9: unequal input lengths, or an index that is neither 0 nor one more than
\* the index before it, make the call fail with an error and no result.
C9_FailsOnMalformed ==
    (Ran /\ (~EqualLen \/ Malformed(r_inds))) =>
        /\ r_result.status = "AssertionError"
        /\ r_result.trials = <<>>

C9_Witness ==
    /\ Ran
    /\ EqualLen
    /\ r_inds = <<0, 2, 0>>
    /\ r_result.status = "AssertionError"

C9_WitnessLengths ==
    /\ Ran
    /\ ~EqualLen
    /\ WellFormed(r_inds)
    /\ r_result.status = "AssertionError"

\* ------------------------------------------------- cache scope: properties
SeqToSet(q) == {q[i] : i \in 1..Len(q)}

\* the pulls made while scope id was the innermost open scope, in order
PullsIn(id) ==
    LET InScope(e) == e.scope = id
    IN SelectSeq(c_log, InScope)

\* C5: a caching scope that is left, normally or by a raising body, has had
\* its forward_iter override removed exactly once, without error, and every
\* forward_iter pull made outside any scope after it runs real inference.
C5_OverrideRemoved ==
    /\ \A i \in 1..Len(c_closed) :
          c_closed[i].use_caching =>
              /\ c_closed[i].inside_fi = c_closed[i].id
              /\ c_closed[i].removed = 1
              /\ c_closed[i].exit_fi = NoOverride
              /\ c_closed[i].error = None
    /\ \A j \in 1..Len(c_log) :
          (c_log[j].scope = 0 /\ c_log[j].after >= 1) =>
              c_log[j].kind = "real"
    /\ (c_scopes = <<>>) => net_forward_iter = NoOverride

C5_Witness ==
    /\ Len(c_closed) >= 1
    /\ c_closed[1].use_caching
    /\ c_closed[1].raised
    /\ c_closed[1].cursor < Len(c_closed[1].y_preds)
    /\ \E j \in 1..Len(c_log) :
          c_log[j].scope = 0 /\ c_log[j].after = 1 /\ c_log[j].kind = "real"

\* C6: inside a caching scope with N supplied predictions the pulls from
\* forward_iter return the N predictions in the supplied order, each once
\* (moved to the device), then the end of the iteration; never real inference.
C6_ReplayInOrder ==
    \A sc \in SeqToSet(c_scopes) \cup SeqToSet(c_closed) :
        sc.use_caching =>
            LET evs == PullsIn(sc.id)
            IN \A j \in 1..Len(evs) :
                 IF j <= Len(sc.y_preds)
                 THEN /\ evs[j].kind = "cached"
                      /\ evs[j].yp.data = sc.y_preds[j].data
                      /\ evs[j].yp.device = net_device
                 ELSE evs[j].kind = "end"

C6_Witness ==
    \E sc \in SeqToSet(c_scopes) :
        /\ sc.use_caching
        /\ Len(sc.y_preds) = 2
        /\ net_device = "cuda"
        /\ Len(PullsIn(sc.id)) = 3
        /\ PullsIn(sc.id)[3].kind = "end"

\* C7: a scope with use_caching false installs no override at entry, removes
\* nothing at exit, raises nothing of its own and never consumes the
\* predictions it was given: net.forward_iter is what it was around it.
C7_DisabledIsNoOp ==
    /\ \A sc \in SeqToSet(c_scopes) \cup SeqToSet(c_closed) :
          ~sc.use_caching =>
              /\ sc.inside_fi = sc.entry_fi
              /\ sc.cursor = 0
              /\ \A e \in SeqToSet(PullsIn(sc.id)) :
                    sc.entry_fi = NoOverride => e.kind = "real"
    /\ \A i \in 1..Len(c_closed) :
          ~c_closed[i].use_caching =>
              /\ c_closed[i].exit_fi = c_closed[i].pre_exit_fi
              /\ c_closed[i].removed = 0
              /\ c_closed[i].error = None
    \* during the scope, as long as its body has opened no scope of its own
    /\ (/\ c_scopes # <<>>
        /\ ~c_scopes[Len(c_scopes)].use_caching
        /\ \A i \in 1..Len(c_closed) :
              c_closed[i].id < c_scopes[Len(c_scopes)].id)
          => net_forward_iter = c_scopes[Len(c_scopes)].entry_fi

C7_Witness ==
    /\ Len(c_closed) >= 1
    /\ ~c_closed[1].use_caching
    /\ Len(c_closed[1].y_preds) = 2
    /\ c_closed[1].entry_fi = NoOverride
    /\ Len(PullsIn(c_closed[1].id)) >= 1
    /\ net_forward_iter = NoOverride

C7_WitnessInsideCaching ==
    /\ Len(c_closed) >= 1
    /\ ~c_closed[1].use_caching
    /\ c_closed[1].entry_fi # NoOverride
    /\ net_forward_iter = c_closed[1].entry_fi

\* --------------------------------------------- scoring callbacks: properties
CroppedGroup(t) == {j \in Cbs : IsCropped(j) /\ cbs[j].on_train = t}
PostGroup == {j \in Cbs : IsPost(j)}
HistoryOf(j) == {k \in 1..Len(history) : history[k].cb = j}

\* C1: within one epoch the gather + reassembly branch runs at most once per
\* on_train group whatever the order of the hooks, and once the hooks of all
\* instances of a group have returned it has run exactly once and all of them
\* hold the same y_preds_ and the same y_trues_.
C1_ComputedOncePerGroup ==
    \A t \in BOOLEAN :
        /\ gather_count[t] <= 1
        /\ (phase = "end" /\ CroppedGroup(t) # {} /\ CroppedGroup(t) \subseteq ran)
             => /\ gather_count[t] = 1
                /\ \A a \in CroppedGroup(t) : crops_to_trials_computed[a]
                /\ \A a, b \in CroppedGroup(t) :
                      /\ y_preds_[a] = y_preds_[b]
                      /\ y_trues_[a] = y_trues_[b]

C1_Witness ==
    /\ phase = "end"
    /\ Cardinality(CroppedGroup(FALSE)) >= 2
    /\ CroppedGroup(FALSE) \subseteq ran
    /\ gather_count[FALSE] = 1
    /\ \A a \in CroppedGroup(FALSE) : Len(y_preds_[a][1].data) = 2

\* the predictions and labels an evaluation pass over the training data gives
SharedPreds == evaluation_pass.y_preds
SharedTrues == evaluation_pass.y_test

\* C2: within one epoch only the first PostEpochTrainScoring hook makes the
\* inference pass; it stores the predictions and labels on every
\* PostEpochTrainScoring instance, and every instance that scores does so
\* through the cache, with those predictions and labels.
C2_FirstPostComputes ==
    /\ eval_passes <= 1
    /\ (last_call.cb # 0 /\ IsPost(last_call.cb) /\ last_call.computed)
          => ran \cap PostGroup = {last_call.cb}
    /\ (ran \cap PostGroup # {} /\ Len(epoch_train.preds) >= 1)
          => /\ eval_passes = 1
             /\ \A j \in PostGroup :
                   y_preds_[j] = SharedPreds /\ y_trues_[j] = SharedTrues
    /\ \A k \in 1..Len(history) :
          IsPost(history[k].cb) =>
              /\ history[k].score.preds =
                    [b \in 1..Len(SharedPreds) |->
                        to_device(SharedPreds[b], net_device)]
              /\ history[k].score.y = SharedTrues
              /\ history[k].score.dataset = DatasetTrain
    /\ (last_call.cb # 0 /\ IsPost(last_call.cb)
         /\ last_call.error # "ValueError")
          => last_call.inside_fi # NoOverride

C2_Witness ==
    /\ Cardinality(PostGroup) >= 2
    /\ PostGroup \subseteq ran
    /\ phase = "end"
    /\ eval_passes = 1
    /\ Len(SharedPreds) = 2
    /\ IsPost(last_call.cb)
    /\ ~last_call.computed
    /\ \A j \in PostGroup : HistoryOf(j) # {}

\* the labels of the first supercrop of every trial of the gathered results
FirstWindowLabels(res) ==
    [t \in 1..Len(ZeroPositions(res.inds)) |->
        res.ys[ZeroPositions(res.inds)[t]]]

\* C3: after the gather + reassembly branch, y_trues_ holds one label per
\* trial, in trial order, the label of the first supercrop of the trial.
C3_TrialLabels ==
    \A j \in Cbs :
        (IsCropped(j) /\ crops_to_trials_computed[j]) =>
            y_trues_[j] = FirstWindowLabels(gathered[cbs[j].on_train])

\* C10: when the scoring function raises, the error leaves the hook, the
\* forward_iter override installed for the scoring is gone, and the history
\* holds no score of that callback for the epoch.
C10_ScoringFailure ==
    (last_call.error = "ScoringError") =>
        /\ phase = "aborted"
        /\ last_call.inside_fi # NoOverride
        /\ last_call.removed = 1
        /\ net_forward_iter = NoOverride
        /\ HistoryOf(last_call.cb) = {}

C10_Witness ==
    /\ last_call.error = "ScoringError"
    /\ IsCropped(last_call.cb)
    /\ Len(history) >= 1
    /\ IsPost(history[1].cb)

C10_WitnessPost ==
    /\ last_call.error = "ScoringError"
    /\ IsPost(last_call.cb)
    /\ Len(history) >= 1

\* a step that is the on_epoch_end call of callback i
HookStep(i) == i \notin ran /\ ran' = ran \cup {i}

\* the fields of the scoring callbacks and the override of the net
HookFrame ==
    <<crops_to_trials_computed, y_preds_, y_trues_, net_forward_iter, history>>

\* C11: on_epoch_end of a CroppedTrialEpochScoring with use_caching false
\* fails with an assertion error before it gathers anything, changes any
\* instance's y_preds_, y_trues_ or crops_to_trials_computed, installs an
\* override or records a score.
C11_AssertBeforeAnything ==
    [][\A i \in Cbs :
          (HookStep(i) /\ IsCropped(i) /\ ~cbs[i].use_caching) =>
              /\ last_call'.cb = i
              /\ last_call'.error = "AssertionError"
              /\ phase' = "aborted"
              /\ ~last_call'.computed
              /\ last_call'.inside_fi = NoOverride
              /\ UNCHANGED HookFrame
              /\ UNCHANGED <<gather_count, gathered>>]_vars

C11_Witness ==
    /\ last_call.cb # 0
    /\ IsCropped(last_call.cb)
    /\ ~cbs[last_call.cb].use_caching
    /\ last_call.error = "AssertionError"
    /\ Len(history) >= 1
    /\ \E j \in Cbs : IsCropped(j) /\ crops_to_trials_computed[j]
                        /\ cbs[j].on_train = cbs[last_call.cb].on_train

\* the callbacks whose on_epoch_end returned without error this epoch
Completed ==
    {j \in ran : ~(last_call.cb = j /\ last_call.error # None)}

\* C12: every on_epoch_end of either kind that returns without error has
\* recorded exactly one score, whether the instance computed the shared
\* predictions or received them; a call that raised has recorded none, and
\* once the k callbacks of the net have run the history holds k scores, one
\* per instance.
C12_OneScorePerInstance ==
    /\ \A j \in Cbs :
          Cardinality(HistoryOf(j)) = IF j \in Completed THEN 1 ELSE 0
    /\ Len(history) = Cardinality(Completed)
    /\ \A k \in 1..Len(history) : history[k].cb \in Cbs
    /\ (phase = "end" /\ ran = Cbs) => Len(history) = NumCbs

C12_Witness ==
    /\ phase = "end"
    /\ ran = Cbs
    /\ Len(history) = NumCbs
    /\ IsCropped(last_call.cb)
    /\ ~last_call.computed
    /\ \E j \in Cbs : IsPost(j)

\* positions of the first and of the last supercrop of trial t
TrialFirst(inds, t) == ZeroPositions(inds)[t]
TrialLast(inds, t) ==
    IF t = Len(ZeroPositions(inds)) THEN Len(inds)
    ELSE ZeroPositions(inds)[t + 1] - 1

\* consecutive supercrops of trial t do not overlap: the stops differ by the
\* length of the supercrop
NoOverlapIn(t) ==
    \A k \in (TrialFirst(r_inds, t) + 1)..TrialLast(r_inds, t) :
        r_stops[k] - r_stops[k - 1] = Len(r_preds[k])

\* C13: a trial whose supercrops do not overlap, a trial of one supercrop
\* included, is output as the concatenation along the time axis of all its
\* supercrops, no time-step dropped; reassemble([P],[0],[T]) is [P].
C13_NoOverlapConcatenates ==
    (Ran /\ EqualLen /\ WellFormed(r_inds)) =>
        /\ r_result.status = "ok"
        /\ \A t \in 1..Len(ZeroPositions(r_inds)) :
              NoOverlapIn(t) =>
                  r_result.trials[t] =
                      np_concatenate_axis1(
                          SubSeq(r_preds, TrialFirst(r_inds, t),
                                 TrialLast(r_inds, t)))
        /\ (Len(r_inds) = 1) => r_result.trials = <<r_preds[1]>>

C13_Witness ==
    /\ Ran
    /\ EqualLen
    /\ r_inds = <<0, 1, 0>>
    /\ Len(r_preds[1]) = 2
    /\ r_stops[2] - r_stops[1] = 2
    /\ r_result.status = "ok"
    /\ Len(r_result.trials[1]) = 4
    /\ r_result.trials[2] = r_preds[3]

C13_WitnessSingle ==
    /\ Ran
    /\ r_inds = <<0>>
    /\ Len(r_preds) = 1
    /\ Len(r_stops) = 1
    /\ r_result.trials = <<r_preds[1]>>

\* the fields of callback j that a broadcast writes
FieldsUnchanged(j) ==
    /\ y_preds_'[j] = y_preds_[j]
    /\ y_trues_'[j] = y_trues_[j]
    /\ crops_to_trials_computed'[j] = crops_to_trials_computed[j]

\* C14: a hook of a CroppedTrialEpochScoring with on_train = v leaves
\* y_preds_, y_trues_ and crops_to_trials_computed of every
\* CroppedTrialEpochScoring with on_train # v and of every
\* PostEpochTrainScoring unchanged; a hook of a PostEpochTrainScoring leaves
\* those of every CroppedTrialEpochScoring unchanged.
C14_GroupsDisjoint ==
    [][\A i \in Cbs : HookStep(i) =>
          \A j \in Cbs :
              \/ IsCropped(i) /\ IsCropped(j)
                    /\ cbs[j].on_train = cbs[i].on_train
              \/ IsPost(i) /\ IsPost(j)
              \/ FieldsUnchanged(j)]_vars

C14_Witness ==
    /\ last_call.cb # 0
    /\ IsCropped(last_call.cb)
    /\ last_call.computed
    /\ last_call.error = None
    /\ \E j \in Cbs :
          /\ IsCropped(j)
          /\ cbs[j].on_train # cbs[last_call.cb].on_train
          /\ crops_to_trials_computed[j]
          /\ y_preds_[j] # y_preds_[last_call.cb]
    /\ \E q \in Cbs : IsPost(q) /\ q \in ran /\ Len(y_preds_[q]) = 2

C14_WitnessPost ==
    /\ last_call.cb # 0
    /\ IsPost(last_call.cb)
    /\ last_call.computed
    /\ last_call.error = None
    /\ \E j \in Cbs : IsCropped(j) /\ crops_to_trials_computed[j]
    /\ \E j \in Cbs : IsCropped(j) /\ ~crops_to_trials_computed[j]
                        /\ y_preds_[j] # <<>>

\* C15: the first supercrop of every trial, the very first one and every one
\* at which a new trial is detected, reaches the output whole, at the head of
\* its trial, whatever the stops of the trial before it.
C15_FirstWindowWhole ==
    (Ran /\ r_result.status = "ok") =>
        /\ WellFormed(r_inds)
        /\ Len(r_result.trials) = Len(ZeroPositions(r_inds))
        /\ \A t \in 1..Len(r_result.trials) :
              LET first == r_preds[TrialFirst(r_inds, t)]
              IN /\ Len(r_result.trials[t]) >= Len(first)
                 /\ SubSeq(r_result.trials[t], 1, Len(first)) = first
                 /\ Contribution(TrialFirst(r_inds, t)) = first

C15_Witness ==
    /\ Ran
    /\ r_result.status = "ok"
    /\ r_inds = <<0, 1, 0>>
    /\ r_stops = <<2, 3, 1>>
    /\ Len(r_preds[3]) = 2
    /\ r_result.trials[2] = r_preds[3]

\* the results the gather of callback i collects in this epoch
GatherSource(i) == IF cbs[i].on_train THEN epoch_train ELSE epoch_valid

\* C16: when the reassembly inside on_epoch_end fails on a malformed index
\* sequence the error leaves the hook and nothing has changed: no instance
\* is marked computed, no y_preds_ or y_trues_ is replaced, no override is
\* installed and no score is recorded.
C16_ReassemblyFailureLeavesState ==
    [][\A i \in Cbs :
          (/\ HookStep(i)
           /\ IsCropped(i)
           /\ cbs[i].use_caching
           /\ ~crops_to_trials_computed[i]
           /\ Malformed(GatherSource(i).inds)) =>
              /\ gathered'[cbs[i].on_train] = GatherSource(i)
              /\ last_call'.cb = i
              /\ last_call'.error = "AssertionError"
              /\ phase' = "aborted"
              /\ last_call'.inside_fi = NoOverride
              /\ \A j \in CroppedGroup(cbs[i].on_train) :
                    ~crops_to_trials_computed'[j]
              /\ UNCHANGED HookFrame
              /\ UNCHANGED gather_count]_vars

C16_Witness ==
    /\ last_call.cb # 0
    /\ IsCropped(last_call.cb)
    /\ cbs[last_call.cb].use_caching
    /\ ~cbs[last_call.cb].on_train
    /\ last_call.error = "AssertionError"
    /\ gathered[FALSE].inds = <<1, 0>>
    /\ Malformed(gathered[FALSE].inds)
    /\ Cardinality(CroppedGroup(FALSE)) >= 2
    /\ Len(history) >= 1

C16_WitnessTrain ==
    /\ last_call.cb # 0
    /\ IsCropped(last_call.cb)
    /\ cbs[last_call.cb].on_train
    /\ last_call.error = "AssertionError"
    /\ gathered[TRUE].inds = <<1, 1>>
    /\ Len(y_preds_[last_call.cb]) = Len(gathered[TRUE].inds)

\* C17: on_epoch_end of a CroppedTrialEpochScoring that is already computed
\* neither gathers nor reassembles and leaves y_preds_, y_trues_ and
\* crops_to_trials_computed of every instance unchanged; with caching on it
\* goes on to score through the cache.
C17_ComputedGoesToScoring ==
    [][\A i \in Cbs :
          (HookStep(i) /\ IsCropped(i) /\ crops_to_trials_computed[i]) =>
              /\ ~last_call'.computed
              /\ UNCHANGED <<gather_count, gathered>>
              /\ UNCHANGED <<crops_to_trials_computed, y_preds_, y_trues_>>
              /\ cbs[i].use_caching =>
                    /\ last_call'.inside_fi # NoOverride
                    /\ last_call'.error \in {None, "ScoringError"}
                    /\ last_call'.error = None =>
                          /\ history' # history
                          /\ history'[Len(history')].cb = i
                          /\ history'[Len(history')].score.y = y_trues_[i]]_vars

C17_Witness ==
    /\ last_call.cb # 0
    /\ IsCropped(last_call.cb)
    /\ cbs[last_call.cb].use_caching
    /\ ~last_call.computed
    /\ last_call.error = None
    /\ last_call.inside_fi # NoOverride
    /\ gather_count[cbs[last_call.cb].on_train] = 1
    /\ Len(gathered[cbs[last_call.cb].on_train].inds) = 2
    /\ HistoryOf(last_call.cb) # {}

\* C18: a CroppedTrialEpochScoring scores against dataset_train when its
\* on_train is true and against dataset_valid when it is false; a
\* PostEpochTrainScoring always scores against dataset_train; both pass the
\* instance's own y_trues_ as the labels.
C18_ScoringDataset ==
    \A k \in 1..Len(history) :
        LET cb == history[k].cb
        IN /\ history[k].score.dataset =
                 IF IsPost(cb) \/ cbs[cb].on_train THEN DatasetTrain
                 ELSE DatasetValid
           /\ history[k].score.y = y_trues_[cb]

C18_Witness ==
    /\ \E k \in 1..Len(history) :
          /\ IsCropped(history[k].cb)
          /\ cbs[history[k].cb].on_train
          /\ history[k].score.dataset = DatasetTrain
          /\ history[k].score.y # <<>>
    /\ \E k \in 1..Len(history) :
          /\ IsCropped(history[k].cb)
          /\ ~cbs[history[k].cb].on_train
          /\ history[k].score.dataset = DatasetValid
          /\ history[k].score.y # <<>>
    /\ \E k \in 1..Len(history) :
          /\ IsPost(history[k].cb)
          /\ Len(history[k].score.y) = 2

\* C19: on well-formed input every computed CroppedTrialEpochScoring holds
\* y_preds_ as one batch with one row per trial found by the reassembler and
\* y_trues_ with as many entries: the label mask and the reassembler's
\* boundary test count the same trials.
C19_RowsMatchLabels ==
    \A j \in Cbs :
        (/\ IsCropped(j)
         /\ crops_to_trials_computed[j]
         /\ WellFormed(gathered[cbs[j].on_train].inds)) =>
            /\ Len(y_preds_[j]) = 1
            /\ Len(y_preds_[j][1].data) =
                  Len(ZeroPositions(gathered[cbs[j].on_train].inds))
            /\ Len(y_trues_[j]) = Len(y_preds_[j][1].data)

\* the epoch in which a column or a label of the training scenario was made
EpochOf(v) == (v % 1000) \div 100

\* C20: after _initialize_cache has run on every instance at the start of an
\* epoch every CroppedTrialEpochScoring is fresh; the first on_epoch_end of
\* a group that gets to scoring has recomputed; and every score recorded in
\* an epoch was computed from trial predictions and labels of that epoch.
C20_FreshEveryEpoch ==
    /\ phase = "batches" =>
          \A j \in Cbs : IsCropped(j) =>
              /\ ~crops_to_trials_computed[j]
              /\ y_preds_[j] = <<>>
              /\ y_trues_[j] = <<>>
    /\ (/\ last_call.cb # 0
        /\ IsCropped(last_call.cb)
        /\ ran \cap CroppedGroup(cbs[last_call.cb].on_train) = {last_call.cb}
        /\ last_call.error \in {None, "ScoringError"})
          => last_call.computed
    /\ \A k \in 1..Len(history) :
          IsCropped(history[k].cb) =>
              /\ gather_count[cbs[history[k].cb].on_train] = 1
              /\ Len(history[k].score.preds) = 1
              /\ \A t \in 1..Len(history[k].score.preds[1].data) :
                    LET m == history[k].score.preds[1].data[t]
                    IN EpochOf(m[1] \div m[2]) = epoch
              /\ \A t \in 1..Len(history[k].score.y) :
                    EpochOf(history[k].score.y[t]) = epoch

C20_Witness ==
    /\ epoch = 2
    /\ phase = "end"
    /\ last_call.cb # 0
    /\ IsCropped(last_call.cb)
    /\ last_call.computed
    /\ last_call.error = None
    /\ \E k \in 1..Len(history) :
          /\ history[k].cb = last_call.cb
          /\ Len(history[k].score.preds[1].data) = 2
          /\ Len(history[k].score.y) = 1
          /\ EpochOf(history[k].score.y[1]) = 2

\* the pulls that returned a cached prediction, in order
CachedPulls ==
    LET IsCached(e) == e.kind = "cached"
    IN SelectSeq(c_log, IsCached)

\* C21: within one caching scope every cached prediction is replayed at most
\* once: all forward_iter calls of the scope draw from one cursor, so once an
\* iteration has reached the end every later pull in the scope yields
\* nothing, and the scope never replays more than it was given.
C21_SharedCursor ==
    /\ \A a, b \in 1..Len(CachedPulls) :
          a # b => CachedPulls[a].yp.data # CachedPulls[b].yp.data
    /\ \A sc \in SeqToSet(c_scopes) \cup SeqToSet(c_closed) :
          sc.use_caching =>
              LET evs == PullsIn(sc.id)
              IN /\ sc.cursor <= Len(sc.y_preds)
                 /\ \A a, b \in 1..Len(evs) :
                       (a < b /\ evs[a].kind = "end") => evs[b].kind = "end"
                 /\ Cardinality({a \in 1..Len(evs) : evs[a].kind = "cached"})
                       = sc.cursor

C21_Witness ==
    \E sc \in SeqToSet(c_scopes) :
        /\ sc.use_caching
        /\ Len(sc.y_preds) = 1
        /\ Len(PullsIn(sc.id)) = 3
        /\ PullsIn(sc.id)[1].kind = "cached"
        /\ PullsIn(sc.id)[2].kind = "end"
        /\ PullsIn(sc.id)[3].kind = "end"

\* C22: a caching scope leaves net.forward_iter as it found it, whatever was
\* installed at its entry: after an inner scope closes the override of the
\* enclosing scope is active again, and the enclosing scope closes without
\* error.
C22_RestoresEntryState ==
    \A i \in 1..Len(c_closed) :
        c_closed[i].use_caching =>
            /\ c_closed[i].exit_fi = c_closed[i].entry_fi
            /\ c_closed[i].error = None

====
